---- MODULE Spec2Model ----
(***************************************************************************)
(* Model of composites/image_composites.py: the image_composite command.   *)
(*                                                                         *)
(* One run of the command is a state machine whose positions are the       *)
(* statements of image_composite: option callbacks and band setup, the     *)
(* metadata read of the first input, the creation of the output and the    *)
(* block buffer, and the block loop (enumerate windows, read every input,  *)
(* evaluate the criterion and gather, write).                              *)
(*                                                                         *)
(* Arrays are functions over 0..n-1, as numpy indexes them.  Band numbers  *)
(* on the command line are 1-based, offsets into the buffer are 0-based.   *)
(* Pixel values are unsigned integers of DTypeBits bits.  Criterion values *)
(* are integers: the expressions modelled use + and - only (the division   *)
(* of the NDVI algorithms yields floats and is outside the model), and     *)
(* every pixel read is valid (no masked or nodata values).                 *)
(***************************************************************************)
EXTENDS Integers, Sequences, FiniteSets, TLC

----------------------------------------------------------------------------
(* Bounds of the input families *)

\* pixel values of the first band range over 0..MaxVal
MaxVal == 2
\* number of input images of the tiling and configuration families
NumImages == 3
\* number of bands of every input image (meta['count'])
Count == 2
\* block shapes range over 1..MaxBlock in each dimension
MaxBlock == 3
\* largest stack of images of the stack family
MaxStack == 3
\* pixel values of the stack family range over 0..MaxStackVal
MaxStackVal == 3
\* width in bits of the pixel datatype (meta['dtype'], an unsigned integer)
DTypeBits == 8

Modulus == 2 ^ DTypeBits

\* raster extents (rows, cols) of the tiling family
Extents == {<<1, 2>>, <<3, 1>>, <<2, 2>>}

----------------------------------------------------------------------------
(* Python and numpy helpers *)

Range0(n) == 0 .. (n - 1)

Abs(x) == IF x < 0 THEN -x ELSE x

Min2(a, b) == IF a < b THEN a ELSE b

\* int(value) on the option strings the model supplies: the strings Python
\* parses as integers, and their values; any other string raises ValueError
IntLiterals ==
  [s \in {"-1", "0", "1", "2", "3", "4", "5", "6"} |->
     CASE s = "-1" -> -1
       [] s = "0" -> 0
       [] s = "1" -> 1
       [] s = "2" -> 2
       [] s = "3" -> 3
       [] s = "4" -> 4
       [] s = "5" -> 5
       [] s = "6" -> 6]

IsInt(s) == s \in DOMAIN IntLiterals

PyInt(s) == IntLiterals[s]

----------------------------------------------------------------------------
(* Criterion expressions *)

\* An S-expression is <<fn, tree>>: the outermost function and its argument.
\* A tree is <<"band", name>> or <<op, left, right>> with op "+" or "-".
Band(name) == <<"band", name>>

\* Predefined algorithms -- name: snuggs expression (the two whose criterion
\* is a band value; the other three divide)
_ALGO ==
  [a \in {"minBlue", "maxNIR"} |->
     IF a = "minBlue" THEN <<"min", Band("blue")>> ELSE <<"max", Band("nir")>>]

\* no --algo / no --expr
None == <<>>

RECURSIVE Names(_)
\* the identifiers of a tree
Names(t) ==
  IF t[1] = "band" THEN {t[2]} ELSE Names(t[2]) \cup Names(t[3])

\* `k in expr`: the band name occurs in the text of the expression.  For the
\* expressions of ExprChoices no band name is part of another token, so the
\* substring test holds exactly for the identifiers of the expression.
InExpr(k, e) == k \in Names(e[2])

RECURSIVE EvalTree(_, _, _, _, _)
\* snuggs arithmetic on the named arrays, at image j, row r, col c: numpy
\* adds and subtracts elementwise in the arrays' unsigned datatype
EvalTree(t, crit, j, r, c) ==
  CASE t[1] = "band" -> crit[t[2]][j][r][c]
    [] t[1] = "+" ->
         (EvalTree(t[2], crit, j, r, c) + EvalTree(t[3], crit, j, r, c)) % Modulus
    [] t[1] = "-" ->
         (EvalTree(t[2], crit, j, r, c) - EvalTree(t[3], crit, j, r, c)) % Modulus

----------------------------------------------------------------------------
(* Selection functions: a is one pixel's values along the image axis,      *)
(* a function over 0..n-1                                                  *)

Len0(a) == Cardinality(DOMAIN a)

RECURSIVE ArgMaxFrom(_, _, _)
ArgMaxFrom(a, i, best) ==
  IF i = Len0(a) THEN best
  ELSE ArgMaxFrom(a, i + 1, IF a[i] > a[best] THEN i ELSE best)

\* np.argmax along axis 0: the first position of the largest value
np_argmax(a) == ArgMaxFrom(a, 1, 0)

RECURSIVE ArgMinFrom(_, _, _)
ArgMinFrom(a, i, best) ==
  IF i = Len0(a) THEN best
  ELSE ArgMinFrom(a, i + 1, IF a[i] < a[best] THEN i ELSE best)

\* np.argmin along axis 0: the first position of the smallest value
np_argmin(a) == ArgMinFrom(a, 1, 0)

RECURSIVE Insert(_, _)
\* x inserted into the sorted sequence s
Insert(s, x) ==
  IF s = <<>> THEN <<x>>
  ELSE IF x <= Head(s) THEN <<x>> \o s
  ELSE <<Head(s)>> \o Insert(Tail(s), x)

RECURSIVE SortFrom(_, _)
SortFrom(a, i) ==
  IF i = Len0(a) THEN <<>> ELSE Insert(SortFrom(a, i + 1), a[i])

\* twice np.median along axis 0 (twice, to stay in the integers): the middle
\* value of the sorted values, or the mean of the two middle values
np_median2(a) ==
  LET s == SortFrom(a, 0)
      n == Len0(a)
  IN IF n % 2 = 1 THEN 2 * s[(n + 1) \div 2]
     ELSE s[n \div 2] + s[(n \div 2) + 1]

\* mutant: the distance to the median without np.abs
MedianDist2_NoAbs(a) == [i \in DOMAIN a |-> 2 * a[i] - np_median2(a)]

\* np.abs(a - np.median(a, axis=0)), doubled
MedianDist2(a) == [i \in DOMAIN a |-> Abs(2 * a[i] - np_median2(a))]

\* mutant: max and min installed the wrong way round
func_map_Swapped(fn, a) ==
  CASE fn = "max" -> np_argmin(a)
    [] fn = "min" -> np_argmax(a)
    [] fn = "median" -> np_argmin(MedianDist2(a))

\* snuggs.func_map['max'], ['min'] and ['median'] as installed by the command
func_map(fn, a) ==
  CASE fn = "max" -> np_argmax(a)
    [] fn = "min" -> np_argmin(a)
    [] fn = "median" -> np_argmin(MedianDist2(a))

----------------------------------------------------------------------------
(* State *)

VARIABLES
  inputs,        \* the input rasters: [block_shapes, data[band][row][col]]
  height,        \* rows of every input raster
  width,         \* cols of every input raster
  opts,          \* the command line: algo, expr, the six band options and
                 \* band, the sequence of --band <<NAME, INDEX>> pairs
  pc,            \* position of the run in image_composite
  error,         \* the exception that ended the run, "" if none
  expr,          \* the criterion S-expression in use
  _bands,        \* band name -> 1-based band number
  crit_indices,  \* band name -> 0-based offset, for the names in expr
  block_nrow,    \* block shape of the first input
  block_ncol,
  windows,       \* block windows not yet iterated
  window,        \* the window being processed
  j,             \* next input to read for the current window
  dat,           \* block buffer dat[image][band][row][col]
  crit_idx,      \* winner index per pixel of the block
  composite,     \* gathered block composite[row][col][band]
  dst,           \* output raster dst[band][row][col]
  nread,         \* history: number of src.read calls made
  nwritten,      \* history: nwritten[row][col] = times the pixel was written
  wins           \* history: the windows iterated so far

vars == <<inputs, height, width, opts, pc, error, expr, _bands, crit_indices,
          block_nrow, block_ncol, windows, window, j, dat, crit_idx,
          composite, dst, nread, nwritten, wins>>

config == <<inputs, height, width, opts>>

\* a cell of np.ma.empty never assigned; a pixel of dst never written
Unset == -1

NoWindow == [row |-> 0, col |-> 0, height |-> 0, width |-> 0]

N == Len0(inputs)

----------------------------------------------------------------------------
(* Input families *)

\* the value of band b >= 1 of image i at (r, c): it names the image, the
\* band and the pixel it comes from
Tag(i, b, r, c) == (((b * 4 + i) * 4 + r) * 4 + c) % Modulus

\* the data of image i whose first band is blue0
ImageData(i, blue0, H, W) ==
  [b \in Range0(Count) |->
     [r \in Range0(H) |->
        [c \in Range0(W) |-> IF b = 0 THEN blue0[r][c] ELSE Tag(i, b, r, c)]]]

BlockShapes == (1 .. MaxBlock) \X (1 .. MaxBlock)

\* the defaults of the six band options
DefaultOpts ==
  [algo |-> "None", expr |-> None, blue |-> "1", green |-> "2", red |-> "3",
   nir |-> "4", swir1 |-> "5", swir2 |-> "6", band |-> <<>>]

\* expressions given with --expr
ExprChoices ==
  {<<"median", Band("blue")>>,
   <<"max", <<"-", Band("blue"), Band("nir")>>>>,
   <<"max", Band("tir")>>}

\* the command lines of the tiling family: the near infrared band is the
\* second band of the inputs
TilingOpts ==
  {[DefaultOpts EXCEPT !.algo = "minBlue", !.nir = "2"],
   [DefaultOpts EXCEPT !.expr = <<"median", Band("blue")>>, !.nir = "2"],
   [DefaultOpts EXCEPT !.expr = <<"max", <<"-", Band("blue"), Band("nir")>>>>,
                       !.nir = "2"]}

\* NumImages rasters of every extent, tiled in every block shape, all inputs
\* alike.  The first band of the first image takes every content over
\* 0..MaxVal; image i holds that content shifted by i, so that the images
\* rank differently from pixel to pixel.
InitTiling ==
  /\ \E e \in Extents :
       /\ height = e[1]
       /\ width = e[2]
       /\ \E base \in [Range0(e[1]) -> [Range0(e[2]) -> 0 .. MaxVal]],
             bs \in BlockShapes :
            inputs = [i \in Range0(NumImages) |->
                        [block_shapes |-> [b \in Range0(Count) |-> bs],
                         data |-> ImageData(i,
                                    [r \in Range0(e[1]) |->
                                       [c \in Range0(e[2]) |->
                                          (base[r][c] + i) % (MaxVal + 1)]],
                                    e[1], e[2])]]
  /\ \E o \in TilingOpts : opts = o

\* the blue values of the selection examples
ExampleVals == {5, 20, 50}

\* stacks of one to MaxStack single-pixel images
InitStack ==
  /\ height = 1
  /\ width = 1
  /\ \E n \in 1 .. MaxStack :
       \E blue0 \in [Range0(n) -> (0 .. MaxStackVal) \cup ExampleVals] :
         inputs = [i \in Range0(n) |->
                     [block_shapes |-> [b \in Range0(Count) |-> <<1, 1>>],
                      data |-> ImageData(i, [r \in {0} |-> [c \in {0} |-> blue0[i]]],
                                         1, 1)]]
  /\ \E fn \in {"max", "min", "median"} :
       opts = [DefaultOpts EXCEPT !.expr = <<fn, Band("blue")>>]

\* the block shapes of the bands of the inputs: all <<1, 2>>, or one band
\* of one input <<2, 2>>
ShapeChoices ==
  {[i \in Range0(NumImages) |-> [b \in Range0(Count) |-> <<1, 2>>]]}
  \cup {[i \in Range0(NumImages) |->
          [b \in Range0(Count) |->
             IF i = x[1] /\ b = x[2] THEN <<2, 2>> ELSE <<1, 2>>]] :
         x \in Range0(NumImages) \X Range0(Count)}

\* one 2 x 2 scene under every command line and block layout
InitConfig ==
  /\ height = 2
  /\ width = 2
  /\ \E shapes \in ShapeChoices :
       inputs = [i \in Range0(NumImages) |->
                   [block_shapes |-> shapes[i],
                    data |-> ImageData(i, [r \in Range0(2) |->
                                             [c \in Range0(2) |->
                                                (i + r + c) % (MaxVal + 1)]],
                                       2, 2)]]
  /\ \E a \in {"None", "minBlue", "maxNIR"},
        x \in {None} \cup ExprChoices,
        n \in {"2", "4", "0", "x"},
        kv \in {<<>>, <<<<"tir", "2">>>>, <<<<"tir", "0">>>>,
                <<<<"tir", "x">>>>, <<<<"blue", "2">>>>} :
       opts = [DefaultOpts EXCEPT !.algo = a, !.expr = x, !.nir = n,
                                  !.band = kv]

Init ==
  /\ InitTiling \/ InitStack \/ InitConfig
  /\ pc = "options"
  /\ error = ""
  /\ expr = None
  /\ _bands = <<>>
  /\ crit_indices = <<>>
  /\ block_nrow = 0
  /\ block_ncol = 0
  /\ windows = <<>>
  /\ window = NoWindow
  /\ j = 0
  /\ dat = <<>>
  /\ crit_idx = <<>>
  /\ composite = <<>>
  /\ dst = <<>>
  /\ nread = 0
  /\ nwritten = [r \in Range0(height) |-> [c \in Range0(width) |-> 0]]
  /\ wins = <<>>

----------------------------------------------------------------------------
(* Options and band setup: the click callbacks and lines 113-141 *)

BandOptions == {"blue", "green", "red", "nir", "swir1", "swir2"}

\* _valid_band accepts the value: int(value) succeeds and is >= 1
_valid_band(value) == IsInt(value) /\ PyInt(value) >= 1

\* neither --algo nor --expr
NoCriterion == opts.algo = "None" /\ opts.expr = None

\* the expression in use: a predefined algorithm is preferred to --expr
ChosenExpr == IF opts.algo # "None" THEN _ALGO[opts.algo] ELSE opts.expr

\* int(v) raises ValueError for some --band pair
BandPairError == \E n \in DOMAIN opts.band : ~IsInt(opts.band[n][2])

RECURSIVE UpdateBands(_, _)
\* _bands.update({k: int(v)}) for every --band pair, in order
UpdateBands(b, pairs) ==
  IF pairs = <<>> THEN b
  ELSE LET k == Head(pairs)[1]
           v == PyInt(Head(pairs)[2])
       IN UpdateBands([n \in DOMAIN b \cup {k} |-> IF n = k THEN v ELSE b[n]],
                      Tail(pairs))

\* the band keywords: the six band options, then the --band pairs
SetupBands ==
  UpdateBands([n \in BandOptions |-> PyInt(opts[n])], opts.band)

\* the band names and 0-based offsets required by the criterion
CritIndices(bands, e) ==
  [k \in {n \in DOMAIN bands : InExpr(n, e)} |-> bands[k] - 1]

Fail(e) ==
  /\ pc' = "failed"
  /\ error' = e

Options ==
  /\ pc = "options"
  /\ \A n \in BandOptions : _valid_band(opts[n])
  /\ ~NoCriterion
  /\ ~BandPairError
  /\ expr' = ChosenExpr
  /\ _bands' = SetupBands
  /\ crit_indices' = CritIndices(SetupBands, ChosenExpr)
  /\ pc' = "first"
  /\ UNCHANGED <<config, error, block_nrow, block_ncol, windows, window, j,
                 dat, crit_idx, composite, dst, nread, nwritten, wins>>

OptionsError ==
  /\ pc = "options"
  /\ IF \E n \in BandOptions : ~_valid_band(opts[n]) THEN Fail("BadParameter")
     ELSE IF NoCriterion THEN Fail("UsageError")
     ELSE BandPairError /\ Fail("BadParameter")
  /\ UNCHANGED <<config, expr, _bands, crit_indices, block_nrow, block_ncol,
                 windows, window, j, dat, crit_idx, composite, dst, nread,
                 nwritten, wins>>

----------------------------------------------------------------------------
(* Metadata of the first input and the block windows: lines 151-161 *)

first == inputs[0]

\* set(first.block_shapes)
ShapeSet(src) == {src.block_shapes[b] : b \in DOMAIN src.block_shapes}

CeilDiv(a, b) == (a \div b) + (IF a % b > 0 THEN 1 ELSE 0)

\* mutant: the clipped blocks at the end of a row or column are left out
block_windows_Floor(h, w) ==
  LET nrows == height \div h
      ncols == width \div w
  IN [k \in 1 .. (nrows * ncols) |->
        [row |-> ((k - 1) \div ncols) * h, col |-> ((k - 1) % ncols) * w,
         height |-> h, width |-> w]]

\* first.block_windows(1): the windows of the blocks of h x w pixels in
\* row-major order, the last of a row or column clipped to the raster
block_windows(h, w) ==
  LET nrows == CeilDiv(height, h)
      ncols == CeilDiv(width, w)
  IN [k \in 1 .. (nrows * ncols) |->
        LET row == ((k - 1) \div ncols) * h
            col == ((k - 1) % ncols) * w
        IN [row |-> row, col |-> col,
            height |-> Min2(h, height - row),
            width |-> Min2(w, width - col)]]

OpenFirst ==
  /\ pc = "first"
  /\ Cardinality(ShapeSet(first)) = 1
  /\ block_nrow' = first.block_shapes[0][1]
  /\ block_ncol' = first.block_shapes[0][2]
  /\ windows' = block_windows(first.block_shapes[0][1], first.block_shapes[0][2])
  /\ pc' = "output"
  /\ UNCHANGED <<config, error, expr, _bands, crit_indices, window, j, dat,
                 crit_idx, composite, dst, nread, nwritten, wins>>

OpenFirstAbort ==
  /\ pc = "first"
  /\ Cardinality(ShapeSet(first)) # 1
  /\ Fail("Abort")
  /\ UNCHANGED <<config, expr, _bands, crit_indices, block_nrow, block_ncol,
                 windows, window, j, dat, crit_idx, composite, dst, nread,
                 nwritten, wins>>

----------------------------------------------------------------------------
(* Output and block buffer: lines 164-170 *)

OpenOutput ==
  /\ pc = "output"
  /\ dst' = [b \in Range0(Count) |->
               [r \in Range0(height) |-> [c \in Range0(width) |-> Unset]]]
  /\ dat' = [i \in Range0(N) |->
               [b \in Range0(Count) |->
                  [r \in Range0(block_nrow) |->
                     [c \in Range0(block_ncol) |-> Unset]]]]
  /\ pc' = "next"
  /\ UNCHANGED <<config, error, expr, _bands, crit_indices, block_nrow,
                 block_ncol, windows, window, j, crit_idx, composite, nread,
                 nwritten, wins>>

----------------------------------------------------------------------------
(* The block loop: lines 172-188 *)

\* for i, (idx, window) in enumerate(windows): the next window, or the end
NextWindow ==
  /\ pc = "next"
  /\ windows # <<>>
  /\ window' = Head(windows)
  /\ windows' = Tail(windows)
  /\ wins' = Append(wins, Head(windows))
  /\ j' = 0
  /\ pc' = "read"
  /\ UNCHANGED <<config, error, expr, _bands, crit_indices, block_nrow,
                 block_ncol, dat, crit_idx, composite, dst, nread, nwritten>>

Finish ==
  /\ pc = "next"
  /\ windows = <<>>
  /\ pc' = "done"
  /\ UNCHANGED <<config, error, expr, _bands, crit_indices, block_nrow,
                 block_ncol, windows, window, j, dat, crit_idx, composite,
                 dst, nread, nwritten, wins>>

\* mutant: the window's offset is ignored by the read
src_read_NoOffset(i, win) ==
  [b \in Range0(Count) |->
     [r \in Range0(win.height) |->
        [c \in Range0(win.width) |-> inputs[i].data[b][r][c]]]]

\* src.read(masked=True, window=window) of input i: arr[band][row][col]
src_read(i, win) ==
  [b \in Range0(Count) |->
     [r \in Range0(win.height) |->
        [c \in Range0(win.width) |->
           inputs[i].data[b][win.row + r][win.col + c]]]]

\* numpy can broadcast an array of the window's shape into a block
Broadcastable(win) ==
  /\ win.height \in {block_nrow, 1}
  /\ win.width \in {block_ncol, 1}

\* mutant: only the cells of the window are assigned, the others keep what
\* the buffer held
AssignBlock_Partial(arr, win) ==
  [b \in Range0(Count) |->
     [r \in Range0(block_nrow) |->
        [c \in Range0(block_ncol) |->
           IF r < win.height /\ c < win.width THEN arr[b][r][c]
           ELSE dat[j][b][r][c]]]]

\* dat[j, ...] = arr: every cell of the block is assigned; a dimension of
\* arr of length one is repeated along the block
AssignBlock(arr, win) ==
  [b \in Range0(Count) |->
     [r \in Range0(block_nrow) |->
        [c \in Range0(block_ncol) |->
           arr[b][IF win.height = 1 THEN 0 ELSE r]
                 [IF win.width = 1 THEN 0 ELSE c]]]]

ReadInput ==
  /\ pc = "read"
  /\ Broadcastable(window)
  /\ dat' = [dat EXCEPT ![j] = AssignBlock(src_read(j, window), window)]
  /\ nread' = nread + 1
  /\ j' = j + 1
  /\ pc' = IF j + 1 = N THEN "eval" ELSE "read"
  /\ UNCHANGED <<config, error, expr, _bands, crit_indices, block_nrow,
                 block_ncol, windows, window, crit_idx, composite, dst,
                 nwritten, wins>>

\* the window read does not fit the block: the assignment raises ValueError
ReadShapeError ==
  /\ pc = "read"
  /\ ~Broadcastable(window)
  /\ nread' = nread + 1
  /\ Fail("ValueError")
  /\ UNCHANGED <<config, expr, _bands, crit_indices, block_nrow, block_ncol,
                 windows, window, j, dat, crit_idx, composite, dst, nwritten,
                 wins>>

\* mutant: the failure is logged and the loop goes on to the next input
ReadFail_Swallowed ==
  /\ pc = "read"
  /\ error' = "IOError"
  /\ j' = j + 1
  /\ pc' = IF j + 1 = N THEN "eval" ELSE "read"
  /\ UNCHANGED <<config, expr, _bands, crit_indices, block_nrow, block_ncol,
                 windows, window, dat, crit_idx, composite, dst, nread,
                 nwritten, wins>>

\* rasterio.open(fname) or src.read fails for input j
ReadFail ==
  /\ pc = "read"
  /\ Fail("IOError")
  /\ UNCHANGED <<config, expr, _bands, crit_indices, block_nrow, block_ncol,
                 windows, window, j, dat, crit_idx, composite, dst, nread,
                 nwritten, wins>>

\* v indexes the band axis of dat
IndexOK(v) == -Count <= v /\ v < Count

\* the band a valid index selects: a negative index counts from the end
Offset(v) == IF v < 0 THEN v + Count ELSE v

\* crit = {k: dat[:, v, ...]}: crit[k][image][row][col]
Crit(d) ==
  [k \in DOMAIN crit_indices |->
     [i \in Range0(N) |-> d[i][Offset(crit_indices[k])]]]

\* snuggs.eval(expr, **crit): the selection function applied along the image
\* axis of the criterion array, for every pixel of the block
snuggs_eval(e, crit) ==
  [r \in Range0(block_nrow) |->
     [c \in Range0(block_ncol) |->
        func_map(e[1], [i \in Range0(N) |-> EvalTree(e[2], crit, i, r, c)])]]

\* mutant: every band takes the image with the largest value of that band
Gather_PerBand(d, idx) ==
  [r \in Range0(block_nrow) |->
     [c \in Range0(block_ncol) |->
        [b \in Range0(Count) |->
           d[np_argmax([i \in Range0(N) |-> d[i][b][r][c]])][b][r][c]]]]

\* np.rollaxis(dat, 1, 4)[crit_idx, mi, mj]: composite[row][col][band]
Gather(d, idx) ==
  [r \in Range0(block_nrow) |->
     [c \in Range0(block_ncol) |->
        [b \in Range0(Count) |-> d[idx[r][c]][b][r][c]]]]

Evaluate ==
  /\ pc = "eval"
  /\ \A k \in DOMAIN crit_indices : IndexOK(crit_indices[k])
  /\ Names(expr[2]) \subseteq DOMAIN crit_indices
  /\ crit_idx' = snuggs_eval(expr, Crit(dat))
  /\ composite' = Gather(dat, snuggs_eval(expr, Crit(dat)))
  /\ pc' = "write"
  /\ UNCHANGED <<config, error, expr, _bands, crit_indices, block_nrow,
                 block_ncol, windows, window, j, dat, dst, nread, nwritten,
                 wins>>

EvaluateError ==
  /\ pc = "eval"
  /\ IF \E k \in DOMAIN crit_indices : ~IndexOK(crit_indices[k])
     THEN Fail("IndexError")
     ELSE ~(Names(expr[2]) \subseteq DOMAIN crit_indices)
          /\ Fail("ExpressionError")
  /\ UNCHANGED <<config, expr, _bands, crit_indices, block_nrow, block_ncol,
                 windows, window, j, dat, crit_idx, composite, dst, nread,
                 nwritten, wins>>

InWindow(r, c, win) ==
  /\ win.row <= r /\ r < win.row + win.height
  /\ win.col <= c /\ c < win.col + win.width

\* the cell of an array of n cells written to cell k of a window of m cells
\* (nearest neighbour; the same cell when n = m)
SourceCell(k, n, m) == ((2 * k + 1) * n) \div (2 * m)

\* dst.write(composite[:, :, i_b], indexes=i_b + 1, window=window), all bands
WriteWindow(out, comp, win) ==
  [b \in Range0(Count) |->
     [r \in Range0(height) |->
        [c \in Range0(width) |->
           IF InWindow(r, c, win)
           THEN comp[SourceCell(r - win.row, block_nrow, win.height)]
                    [SourceCell(c - win.col, block_ncol, win.width)][b]
           ELSE out[b][r][c]]]]

WriteBlock ==
  /\ pc = "write"
  /\ dst' = WriteWindow(dst, composite, window)
  /\ nwritten' = [r \in Range0(height) |->
                    [c \in Range0(width) |->
                       nwritten[r][c] + IF InWindow(r, c, window) THEN 1 ELSE 0]]
  /\ pc' = "next"
  /\ UNCHANGED <<config, error, expr, _bands, crit_indices, block_nrow,
                 block_ncol, windows, window, j, dat, crit_idx, composite,
                 nread, wins>>

\* dst.write fails
WriteFail ==
  /\ pc = "write"
  /\ Fail("IOError")
  /\ UNCHANGED <<config, expr, _bands, crit_indices, block_nrow, block_ncol,
                 windows, window, j, dat, crit_idx, composite, dst, nread,
                 nwritten, wins>>

Next ==
  \/ Options
  \/ OptionsError
  \/ OpenFirst
  \/ OpenFirstAbort
  \/ OpenOutput
  \/ NextWindow
  \/ Finish
  \/ ReadInput
  \/ ReadShapeError
  \/ ReadFail
  \/ Evaluate
  \/ EvaluateError
  \/ WriteBlock
  \/ WriteFail

Spec == Init /\ [][Next]_vars

----------------------------------------------------------------------------
(* Definitions shared by the properties *)

\* the inputs as one array d[image][band][row][col] over the whole raster
WholeStack == [i \in Range0(N) |-> inputs[i].data]

\* the criterion values of the images at pixel (r, c) of the array d
Stack(d, r, c) ==
  [i \in Range0(N) |-> EvalTree(expr[2], Crit(d), i, r, c)]

\* the pixels of a window, relative to its offset
Cells(win) == Range0(win.height) \X Range0(win.width)

Pixels == Range0(height) \X Range0(width)

NothingWritten == \A p \in Pixels : nwritten[p[1]][p[2]] = 0

\* a block has been written and the loop has not moved on
BlockWritten == pc = "next" /\ wins # <<>>

\* the block shape divides the raster extent
Divides == height % block_nrow = 0 /\ width % block_ncol = 0

\* the k-th smallest value of a (k from 0), stated by counting
OrderStat(a, k) ==
  CHOOSE v \in {a[i] : i \in DOMAIN a} :
    /\ Cardinality({i \in DOMAIN a : a[i] < v}) <= k
    /\ Cardinality({i \in DOMAIN a : a[i] <= v}) > k

\* twice the median of a
Median2(a) ==
  LET n == Len0(a)
  IN IF n % 2 = 1 THEN 2 * OrderStat(a, (n - 1) \div 2)
     ELSE OrderStat(a, (n \div 2) - 1) + OrderStat(a, n \div 2)

----------------------------------------------------------------------------
(* C1 *)

\* C1: when a block has been written, every output band of every pixel of
\* its window equals buffer[W[r,c], b, r, c] for the winner-index map W of
\* that block, and all bands of the pixel are those of one input image.
C1_SingleWinner ==
  BlockWritten =>
    \A p \in Cells(window) :
      LET r == p[1]
          c == p[2]
      IN /\ \A b \in Range0(Count) :
              dst[b][window.row + r][window.col + c] = dat[crit_idx[r][c]][b][r][c]
         /\ \E i \in Range0(N) :
              \A b \in Range0(Count) :
                dst[b][window.row + r][window.col + c]
                  = inputs[i].data[b][window.row + r][window.col + c]

\* a written block of several pixels whose pixels have different winners
C1_Witness ==
  /\ BlockWritten
  /\ \E p, q \in Cells(window) : crit_idx[p[1]][p[2]] # crit_idx[q[1]][q[2]]

----------------------------------------------------------------------------
(* C2 *)

\* C2: after max or min is evaluated for a block, the index of every pixel
\* is an image position in [0, image_count) whose criterion value is the
\* largest (max) or the smallest (min) of all images at that pixel.
C2_MaxMinIndex ==
  (pc = "write" /\ expr[1] \in {"max", "min"}) =>
    \A r \in Range0(block_nrow), c \in Range0(block_ncol) :
      LET a == Stack(dat, r, c)
          w == crit_idx[r][c]
      IN /\ w \in Range0(N)
         /\ expr[1] = "max" => \A i \in Range0(N) : a[i] <= a[w]
         /\ expr[1] = "min" => \A i \in Range0(N) : a[i] >= a[w]

\* blue values (5, 50, 20): minBlue selects the image with blue = 5
C2_Witness ==
  /\ pc = "write"
  /\ expr = <<"min", Band("blue")>>
  /\ N = 3
  /\ Stack(dat, 0, 0) = [i \in Range0(3) |-> IF i = 0 THEN 5 ELSE IF i = 1 THEN 50 ELSE 20]
  /\ crit_idx[0][0] = 0

----------------------------------------------------------------------------
(* C3 *)

\* C3: after median is evaluated for a block, the index of every pixel is
\* the image whose criterion value is closest to the median of all images
\* at that pixel, the first such image in input order; of three images of
\* distinct values it is the one holding the middle value.
C3_MedianIndex ==
  (pc = "write" /\ expr[1] = "median") =>
    \A r \in Range0(block_nrow), c \in Range0(block_ncol) :
      LET a == Stack(dat, r, c)
          w == crit_idx[r][c]
          d(i) == Abs(2 * a[i] - Median2(a))
      IN /\ w \in Range0(N)
         /\ \A i \in Range0(N) : d(w) <= d(i)
         /\ \A i \in Range0(N) : i < w => d(w) < d(i)
         /\ (N = 3 /\ Cardinality({a[i] : i \in Range0(N)}) = 3) =>
              \E lo, hi \in Range0(N) : a[lo] < a[w] /\ a[w] < a[hi]

\* three images of distinct values, the middle one last
C3_Witness ==
  /\ pc = "write"
  /\ expr[1] = "median"
  /\ N = 3
  /\ Stack(dat, 0, 0) = [i \in Range0(3) |-> IF i = 0 THEN 50 ELSE IF i = 1 THEN 5 ELSE 20]
  /\ crit_idx[0][0] = 2

----------------------------------------------------------------------------
(* C4 *)

\* some band of some input has a block shape other than the first input's
BlockShapesDisagree ==
  \E i \in Range0(N) :
    \E b \in DOMAIN inputs[i].block_shapes :
      inputs[i].block_shapes[b] # first.block_shapes[0]

\* C4: if the block shapes disagree across the bands of an input or across
\* the inputs, the run fails during setup: no block is read from any input,
\* nothing is written to the output and the run does not complete.
C4_BlockShapesEnforced ==
  BlockShapesDisagree => (nread = 0 /\ NothingWritten /\ pc # "done")

----------------------------------------------------------------------------
(* C5 *)

\* the criterion expression in use names a band the band map lacks
UnregisteredBand ==
  expr # None /\ ~(Names(expr[2]) \subseteq DOMAIN _bands)

\* C5: if the criterion expression names a band that is not in the band
\* map, the run fails before any block processing: no input block is read
\* and no output block is written.
C5_UnregisteredBandEarly ==
  UnregisteredBand => (nread = 0 /\ NothingWritten)

----------------------------------------------------------------------------
(* C6 *)

\* the winner of pixel (r, c) of the raster, from the inputs alone
WinnerAt(r, c) == func_map(expr[1], Stack(WholeStack, r, c))

\* C6: a completed run whose block shape divides the raster extent leaves,
\* in every band of every pixel, the value of the input image the criterion
\* selects for that pixel alone: the output does not depend on the block
\* shape, so any two such block shapes give the same composite.
C6_TilingIndependent ==
  (pc = "done" /\ Divides) =>
    \A p \in Pixels, b \in Range0(Count) :
      dst[b][p[1]][p[2]] = inputs[WinnerAt(p[1], p[2])].data[b][p[1]][p[2]]

\* a completed run of several blocks smaller than the raster, in which
\* pixels of different blocks have different winners
C6_Witness ==
  /\ pc = "done"
  /\ Divides
  /\ Len(wins) >= 2
  /\ \E k, l \in DOMAIN wins :
       WinnerAt(wins[k].row, wins[k].col) # WinnerAt(wins[l].row, wins[l].col)

----------------------------------------------------------------------------
(* C7 *)

\* the windows of the run: those iterated and those to come
AllWindows == wins \o windows

\* C7: the block windows lie in the raster and every pixel is in exactly one
\* of them; no pixel is written twice; in a run that completes every pixel
\* of every band has been written exactly once, with a value read from the
\* same pixel of an input.
C7_WindowsPartition ==
  /\ pc \notin {"options", "first", "failed"} =>
       /\ \A k \in DOMAIN AllWindows :
            /\ AllWindows[k].height >= 1
            /\ AllWindows[k].width >= 1
            /\ AllWindows[k].row + AllWindows[k].height <= height
            /\ AllWindows[k].col + AllWindows[k].width <= width
       /\ \A p \in Pixels :
            Cardinality({k \in DOMAIN AllWindows :
                           InWindow(p[1], p[2], AllWindows[k])}) = 1
  /\ \A p \in Pixels : nwritten[p[1]][p[2]] <= 1
  /\ pc = "done" =>
       \A p \in Pixels :
         /\ nwritten[p[1]][p[2]] = 1
         /\ \E i \in Range0(N) :
              \A b \in Range0(Count) :
                dst[b][p[1]][p[2]] = inputs[i].data[b][p[1]][p[2]]

\* a completed run of several windows whose last row or column of blocks is
\* clipped: the extent is not a multiple of the block shape
C7_Witness ==
  /\ pc = "done"
  /\ ~Divides
  /\ Len(wins) >= 2

----------------------------------------------------------------------------
(* C8 *)

\* a read failed: the run stopped with an I/O error before the last input
\* of the window was read
ReadFailed == pc = "failed" /\ error = "IOError" /\ j < N

\* C8: an error ends the run as failed, and after it nothing is read and
\* nothing is written; when a read fails no pixel of the window being
\* processed has been written; a run that is reported successful has
\* written the full extent.
C8_ReadFailureAborts ==
  /\ [](error # "" => pc = "failed")
  /\ [][error # "" =>
          (pc' = "failed" /\ nread' = nread /\ dst' = dst /\ nwritten' = nwritten)]_vars
  /\ [](ReadFailed =>
          \A p \in Cells(window) :
            nwritten[window.row + p[1]][window.col + p[2]] = 0)
  /\ [](pc = "done" =>
          /\ error = ""
          /\ \A p \in Pixels, b \in Range0(Count) : dst[b][p[1]][p[2]] # Unset)

\* the second input cannot be read for the second window, after the first
\* block has been written
C8_Witness ==
  /\ ReadFailed
  /\ Len(wins) = 2
  /\ j = 1
  /\ ~NothingWritten

----------------------------------------------------------------------------
(* C9 *)

\* C9: once the band map is built every band number in it is >= 1 and
\* every 0-based offset derived from it is >= 0.
C9_PositiveBandNumbers ==
  expr # None =>
    /\ \A k \in DOMAIN _bands : _bands[k] >= 1
    /\ \A k \in DOMAIN crit_indices : crit_indices[k] >= 0

----------------------------------------------------------------------------
(* C10 *)

\* C10: when the criterion of a block is evaluated and its output gathered,
\* every cell of the block buffer holds a value read for the current window
\* from that image and band, and the cells of the window hold the values of
\* the window's pixels.
C10_FreshBuffer ==
  pc \in {"eval", "write"} =>
    \A i \in Range0(N), b \in Range0(Count),
       r \in Range0(block_nrow), c \in Range0(block_ncol) :
      /\ \E p \in Cells(window) :
           dat[i][b][r][c] = inputs[i].data[b][window.row + p[1]][window.col + p[2]]
      /\ (r < window.height /\ c < window.width) =>
           dat[i][b][r][c] = inputs[i].data[b][window.row + r][window.col + c]

\* the criterion of a later block is about to be evaluated: the buffer held
\* the values of an earlier block
C10_Witness ==
  /\ pc = "eval"
  /\ Len(wins) >= 2

====
